---- MODULE Spec2Model ----
(***************************************************************************)
(* The seed-to-location range-remapping engine of 2023/day05/src/main.rs:  *)
(* ingestion of map blocks (read_all_maps, read_map, parse_map_header,     *)
(* Mapping::from_str), Map::lookup, Mappings::lookup_seed_location and     *)
(* find_seed_with_smallest_location; process_all_cards of                  *)
(* 2023/day04-part2/src/main.rs; find_number_of_winning_hold_times of      *)
(* 2023/day06/src/main.rs.  The three programs share no state; each        *)
(* specification below runs one of them.                                   *)
(*                                                                         *)
(* u64 is scaled down to 0..U64Max.  An arithmetic overflow panics in a    *)
(* build with overflow checks (cargo's dev and test profiles) and wraps in *)
(* a build without them (the release profile); overflow_checks is the      *)
(* profile, chosen once in Init.                                           *)
(***************************************************************************)
EXTENDS Integers, Sequences, FiniteSets

VARIABLES
    overflow_checks,  \* the build profile: TRUE panics on overflow, FALSE wraps
    pc,               \* position of the program
    maps,             \* Mappings.0 : HashMap<String, Map>, as a function on its keys
    block,            \* read_map's locals (source, destination, mappings)
    length_field,     \* from_str's parse of the length field of the last mapping line
    arg,              \* key of the map Map::lookup was last called on
    result,           \* outcome of those calls, for every source value
    seed,             \* lookup_seed_location's argument
    key,              \* lookup_seed_location's local key
    value,            \* lookup_seed_location's local value
    hops,             \* iterations of lookup_seed_location's loop that applied a map
    location,         \* outcome of lookup_seed_location
    seeds,            \* find_seed_with_smallest_location's argument
    idx,              \* position in seeds of the next seed of its loop
    smallest,         \* its local smallest: (seed, location)
    found,            \* its outcome
    calls,            \* calls of lookup_seed_location it has made
    input,            \* history: the blocks of text read_all_maps has read, in order
    applied,          \* history: the keys of the maps lookup_seed_location has applied
    card_pc,          \* position of 2023/day04-part2
    card_counts,      \* process_all_cards's local card_counts
    matched,          \* history: process_card's result for every card read, in order
    total_cards,      \* outcome of process_all_cards
    race_pc,          \* position of 2023/day06
    race,             \* the Race
    win_range         \* outcome of find_number_of_winning_hold_times

ingestVars == <<maps, block, length_field>>
lookupVars == <<arg, result>>
walkVars == <<seed, key, value, hops, location, applied>>
findVars == <<seeds, idx, smallest, found, calls>>
cardVars == <<card_pc, card_counts, matched, total_cards>>
raceVars == <<race_pc, race, win_range>>
vars == <<overflow_checks, pc, ingestVars, input, lookupVars, walkVars, findVars, cardVars,
          raceVars>>

(***************************************************************************)
(* Bounds.                                                                 *)
(***************************************************************************)
U64Max == 2
MaxMappings == 2

U64 == 0..U64Max

(***************************************************************************)
(* Outcomes of a call: a value, an error (Err of anyhow) or a panic.       *)
(***************************************************************************)
Ok(v) == [tag |-> "Ok", val |-> v]
Err(e) == [tag |-> "Err", val |-> e]
Panicked == [tag |-> "Panic", val |-> "attempt to add with overflow"]
None == [tag |-> "None", val |-> 0]

(***************************************************************************)
(* u64 arithmetic.                                                         *)
(***************************************************************************)
AddU64(a, b) ==
    IF a + b <= U64Max THEN Ok(a + b)
    ELSE IF overflow_checks THEN Panicked
    ELSE Ok((a + b) % (U64Max + 1))

SubU64(a, b) ==
    IF a >= b THEN Ok(a - b)
    ELSE IF overflow_checks THEN Panicked
    ELSE Ok((a - b) % (U64Max + 1))

(***************************************************************************)
(* Text.  A character is a decimal digit 0..9 or NonDigit; a token is a    *)
(* sequence of characters; a mapping line is the sequence of tokens that   *)
(* split_ascii_whitespace yields.                                          *)
(***************************************************************************)
NonDigit == 10

\* str::parse::<u64>: digits only, not empty, the value within u64.
RECURSIVE ParseDigits(_, _, _)
ParseDigits(tok, i, acc) ==
    IF i > Len(tok) THEN Ok(acc)
    ELSE IF tok[i] = NonDigit THEN Err("invalid digit found in string")
    ELSE IF acc * 10 + tok[i] > U64Max THEN Err("number too large to fit in target type")
    ELSE ParseDigits(tok, i + 1, acc * 10 + tok[i])

ParseU64(tok) ==
    IF Len(tok) = 0 THEN Err("cannot parse integer from empty string")
    ELSE ParseDigits(tok, 1, 0)

\* Range<u64>::contains
Contains(range, item) == range.start <= item /\ item < range.end

\* Mapping::from_str, with the line already split into parts.
from_str(parts) ==
    IF Len(parts) # 3 THEN Err("Mapping must have 3 parts")
    ELSE LET destination_start == ParseU64(parts[1])
             source_start == ParseU64(parts[2])
             length == ParseU64(parts[3])
         IN  IF destination_start.tag = "Err" THEN Err("Mapping destination must be a number")
             ELSE IF source_start.tag = "Err" THEN Err("Mapping source start must be a number")
             ELSE IF length.tag = "Err" THEN Err("Mapping length must be a number")
             ELSE LET end == AddU64(source_start.val, length.val)
                  IN  IF end.tag = "Panic" THEN Panicked
                      ELSE Ok([source |-> [start |-> source_start.val, end |-> end.val],
                               destination_start |-> destination_start.val])

(***************************************************************************)
(* Map::lookup: the first mapping, in declaration order, whose source      *)
(* range contains the value; destination_start + (source - start) for it,  *)
(* the value itself when there is none.                                    *)
(***************************************************************************)
RECURSIVE Find(_, _, _)
Find(mappings, source, i) ==
    IF i > Len(mappings) THEN 0
    ELSE IF Contains(mappings[i].source, source) THEN i
    ELSE Find(mappings, source, i + 1)

RECURSIVE FindLast(_, _, _)
FindLast(mappings, source, i) ==
    IF i < 1 THEN 0
    ELSE IF Contains(mappings[i].source, source) THEN i
    ELSE FindLast(mappings, source, i - 1)

MapValue(mapping, source) ==
    LET offset == SubU64(source, mapping.source.start)
    IN  IF offset.tag = "Panic" THEN Panicked
        ELSE AddU64(mapping.destination_start, offset.val)

\* lookup with a fault: the last match, the offset dropped, no passthrough
LookupLastMatch(map, source) ==
    LET i == FindLast(map.mappings, source, Len(map.mappings))
    IN  IF i = 0 THEN Ok(source) ELSE MapValue(map.mappings[i], source)

LookupNoOffset(map, source) ==
    LET i == Find(map.mappings, source, 1)
    IN  IF i = 0 THEN Ok(source) ELSE Ok(map.mappings[i].destination_start)

LookupNoPassthrough(map, source) ==
    LET i == Find(map.mappings, source, 1)
    IN  IF i = 0 THEN Ok(0) ELSE MapValue(map.mappings[i], source)

lookup(map, source) ==
    LET i == Find(map.mappings, source, 1)
    IN  IF i = 0 THEN Ok(source) ELSE MapValue(map.mappings[i], source)

(***************************************************************************)
(* Mappings::lookup_seed_location.  LoopBody is one iteration of its loop  *)
(* from the locals (key, value): the ? on a missing map, the two           *)
(* assignments and the test for "location".                                *)
(***************************************************************************)
NoMap(k) == [msg |-> "No map for source", key |-> k]

Going(k, v) == [done |-> FALSE, key |-> k, value |-> v, outcome |-> None]
Ended(k, v, o) == [done |-> TRUE, key |-> k, value |-> v, outcome |-> o]

\* LoopBody with a fault: the test for "location" before the lookup, a
\* missing map taken for the end of the chain
LoopBodyTestsBeforeLookup(ms, k, v) ==
    IF k \notin DOMAIN ms THEN Ended(k, v, Err(NoMap(k)))
    ELSE IF ms[k].destination = "location" THEN Ended("location", v, Ok(v))
    ELSE LET looked == lookup(ms[k], v)
         IN  IF looked.tag = "Panic" THEN Ended(ms[k].destination, v, Panicked)
             ELSE Going(ms[k].destination, looked.val)

LoopBodyMissingMapEnds(ms, k, v) ==
    IF k \notin DOMAIN ms THEN Ended(k, v, Ok(v))
    ELSE LET looked == lookup(ms[k], v)
         IN  IF looked.tag = "Panic" THEN Ended(ms[k].destination, v, Panicked)
             ELSE IF ms[k].destination = "location"
                  THEN Ended("location", looked.val, Ok(looked.val))
                  ELSE Going(ms[k].destination, looked.val)

\* LoopBody with a fault: the test for "location" on the category the map
\* was fetched by
LoopBodyTestsSource(ms, k, v) ==
    IF k \notin DOMAIN ms THEN Ended(k, v, Err(NoMap(k)))
    ELSE LET looked == lookup(ms[k], v)
         IN  IF looked.tag = "Panic" THEN Ended(ms[k].destination, v, Panicked)
             ELSE IF k = "location"
                  THEN Ended(ms[k].destination, looked.val, Ok(looked.val))
                  ELSE Going(ms[k].destination, looked.val)

LoopBody(ms, k, v) ==
    IF k \notin DOMAIN ms THEN Ended(k, v, Err(NoMap(k)))
    ELSE LET map == ms[k]
             looked == lookup(map, v)
         IN  IF looked.tag = "Panic" THEN Ended(map.destination, v, Panicked)
             ELSE IF map.destination = "location"
                  THEN Ended(map.destination, looked.val, Ok(looked.val))
                  ELSE Going(map.destination, looked.val)

\* lookup_seed_location as a whole.  The loop is deterministic in (key,
\* value): one that has run more iterations than there are such pairs is at
\* a pair it was at before, and never returns.
Categories == {"seed", "soil", "location"}
Diverges == [tag |-> "Diverges", val |-> "never returns"]

RECURSIVE Loop(_, _, _, _)
Loop(ms, k, v, fuel) ==
    IF fuel = 0 THEN Diverges
    ELSE LET body == LoopBody(ms, k, v)
         IN  IF body.done THEN body.outcome
             ELSE Loop(ms, body.key, body.value, fuel - 1)

lookup_seed_location(ms, s) ==
    Loop(ms, "seed", s, Cardinality(Categories) * (U64Max + 1) + 1)

(***************************************************************************)
(* find_seed_with_smallest_location: FindEntry is its code up to the loop, *)
(* FindBody one iteration of the loop.  Both give the position reached,    *)
(* the local smallest and the outcome if the function ends there.          *)
(***************************************************************************)
FindGoing(sm) == [pc |-> "finding", smallest |-> sm, found |-> None]
FindEnded(sm, o) ==
    [pc |-> CASE o.tag = "Panic" -> "panicked"
              [] o.tag = "Diverges" -> "hung"
              [] OTHER -> "returned",
     smallest |-> sm,
     found |-> IF o.tag = "Diverges" THEN None ELSE o]

\* with a fault: seeds[0] read without the test for an empty list, <= for <
FindEntryNoEmptyTest(ms, sds, sm) ==
    IF sds = <<>> THEN FindEnded(sm, Panicked)
    ELSE LET loc == lookup_seed_location(ms, sds[1])
         IN  IF loc.tag = "Ok" THEN FindGoing(<<sds[1], loc.val>>)
             ELSE FindEnded(sm, loc)

FindBodyLastWins(ms, sd, sm) ==
    LET loc == lookup_seed_location(ms, sd)
    IN  IF loc.tag # "Ok" THEN FindEnded(sm, loc)
        ELSE IF loc.val <= sm[2] THEN FindGoing(<<sd, loc.val>>)
        ELSE FindGoing(sm)

FindEntry(ms, sds, sm) ==
    IF sds = <<>> THEN FindEnded(sm, Err("No seeds"))
    ELSE LET loc == lookup_seed_location(ms, sds[1])
         IN  IF loc.tag = "Ok" THEN FindGoing(<<sds[1], loc.val>>)
             ELSE FindEnded(sm, loc)

FindBody(ms, sd, sm) ==
    LET loc == lookup_seed_location(ms, sd)
    IN  IF loc.tag # "Ok" THEN FindEnded(sm, loc)
        ELSE IF loc.val < sm[2] THEN FindGoing(<<sd, loc.val>>)
        ELSE FindGoing(sm)

(***************************************************************************)
(* parse_map_header.  A header line is its text before the last five       *)
(* characters, split at '-', and whether those five characters are         *)
(* " map:".                                                                *)
(***************************************************************************)
parse_map_header(line) ==
    IF ~line.ends_with_map THEN Err("Map header must end with ' map:'")
    ELSE IF Len(line.parts) # 3 \/ line.parts[2] # "to"
         THEN Err("Map header must be in the format 'source-to-destination map:'")
    ELSE Ok(<<line.parts[1], line.parts[3]>>)

(***************************************************************************)
(* Inputs.                                                                 *)
(***************************************************************************)
Chars == (0..(U64Max + 1)) \cup {NonDigit}
Tokens == {<<c>> : c \in Chars} \cup {<<0, 1>>, <<1, 0>>}
Lines == [1..3 -> Tokens] \cup [1..2 -> Tokens] \cup {<<t, t, t, t>> : t \in Tokens}

Header(src, dst) == [parts |-> <<src, "to", dst>>, ends_with_map |-> TRUE]
BadHeaders == { [parts |-> <<"seed to soil">>, ends_with_map |-> TRUE],
                [parts |-> <<"seed", "to", "soil">>, ends_with_map |-> FALSE],
                [parts |-> <<"seed", "into", "soil">>, ends_with_map |-> TRUE] }

NoBlock == [source |-> "", destination |-> "", mappings |-> <<>>]
EmptyMaps == [c \in {} |-> NoBlock]

Insert(m, k, v) == [c \in (DOMAIN m) \cup {k} |-> IF c = k THEN v ELSE m[c]]

(***************************************************************************)
(* read_all_maps and read_map, one input line per step.                    *)
(*   pc = "read_map" : read_map is about to read a header                  *)
(*   pc = "mappings" : read_map is in its loop over the mapping lines      *)
(*   pc = "loaded"   : read_all_maps has returned Ok(Mappings(maps))       *)
(*   pc = "failed"   : read_all_maps has returned an Err                   *)
(*   pc = "panicked" : the program has panicked                            *)
(***************************************************************************)
ReadHeader(headers) ==
    /\ pc = "read_map"
    /\ \E line \in headers :
         LET parsed == parse_map_header(line)
         IN  IF parsed.tag = "Err"
             THEN /\ pc' = "failed"
                  /\ block' = block
             ELSE /\ pc' = "mappings"
                  /\ block' = [source |-> parsed.val[1], destination |-> parsed.val[2],
                               mappings |-> <<>>]
    /\ UNCHANGED <<overflow_checks, maps, length_field, lookupVars, walkVars, findVars,
                   input, cardVars, raceVars>>

\* the length field as from_str parses it: None when the line has not three parts
LengthField(parts) == IF Len(parts) # 3 THEN None ELSE ParseU64(parts[3])

ReadMappingLine(lines, max) ==
    /\ pc = "mappings"
    /\ Len(block.mappings) < max
    /\ \E line \in lines :
         /\ length_field' = LengthField(line)
         /\ LET mapping == from_str(line)
            IN  CASE mapping.tag = "Err" -> pc' = "failed" /\ block' = NoBlock
                  [] mapping.tag = "Panic" -> pc' = "panicked" /\ block' = NoBlock
                  [] OTHER -> /\ pc' = pc
                              /\ block' = [block EXCEPT !.mappings = Append(@, mapping.val)]
    /\ UNCHANGED <<overflow_checks, maps, lookupVars, walkVars, findVars, input,
                   cardVars, raceVars>>

\* a blank line ends the block; read_all_maps inserts the map and goes on
ReadBlankLine ==
    /\ pc = "mappings"
    /\ maps' = Insert(maps, block.source, block)
    /\ block' = NoBlock
    /\ pc' = "read_map"
    /\ UNCHANGED <<overflow_checks, length_field, lookupVars, walkVars, findVars,
                   input, cardVars, raceVars>>

\* the end of the input ends the block, and the next read_map returns None
EndOfInputInBlock ==
    /\ pc = "mappings"
    /\ maps' = Insert(maps, block.source, block)
    /\ block' = NoBlock
    /\ pc' = "loaded"
    /\ UNCHANGED <<overflow_checks, length_field, lookupVars, walkVars, findVars,
                   input, cardVars, raceVars>>

EndOfInput ==
    /\ pc = "read_map"
    /\ pc' = "loaded"
    /\ UNCHANGED <<overflow_checks, ingestVars, lookupVars, walkVars, findVars, input,
                   cardVars, raceVars>>

(***************************************************************************)
(* Map::lookup called on a map of the loaded chain, once for every source  *)
(* value.                                                                  *)
(***************************************************************************)
Lookup ==
    /\ pc = "loaded"
    /\ \E k \in DOMAIN maps :
         /\ arg' = k
         /\ result' = [source \in U64 |-> lookup(maps[k], source)]
    /\ UNCHANGED <<overflow_checks, pc, ingestVars, walkVars, findVars, input,
                   cardVars, raceVars>>

NoCall == ""
NoRace == [time |-> 0, record_distance |-> 0]

Init ==
    /\ overflow_checks \in BOOLEAN
    /\ pc = "read_map"
    /\ maps = EmptyMaps
    /\ block = NoBlock
    /\ length_field = None
    /\ arg = NoCall
    /\ result = None
    /\ seed = 0
    /\ key = ""
    /\ value = 0
    /\ hops = 0
    /\ location = None
    /\ seeds = <<>>
    /\ idx = 1
    /\ smallest = <<0, 0>>
    /\ found = None
    /\ calls = 0
    /\ input = <<>>
    /\ applied = <<>>
    /\ card_pc = "start"
    /\ card_counts = <<>>
    /\ matched = <<>>
    /\ total_cards = None
    /\ race_pc = "start"
    /\ race = NoRace
    /\ win_range = None

(***************************************************************************)
(* SpecLookup: one block "seed-to-soil map:" is read up to the end of the  *)
(* input, then Map::lookup is called on its map.                           *)
(***************************************************************************)
LookupHeaders == {Header("seed", "soil")} \cup BadHeaders

ReadOneHeader == DOMAIN maps = {} /\ ReadHeader(LookupHeaders)
ReadAnyLine == ReadMappingLine(Lines, MaxMappings)

NextLookup ==
    \/ ReadOneHeader
    \/ ReadAnyLine
    \/ EndOfInputInBlock
    \/ EndOfInput
    \/ Lookup

SpecLookup == Init /\ [][NextLookup]_vars

(***************************************************************************)
(* Spec: a chain of blocks is read, then lookup_seed_location is called    *)
(* and runs one loop iteration per step.                                   *)
(*   pc = "walking"  : lookup_seed_location is in its loop                 *)
(*   pc = "returned" : it has returned location                            *)
(* The loop has no bound of its own; MaxHops stops the exploration.        *)
(***************************************************************************)
MaxHops == 5
WalkMappings == 1

WalkHeaders ==
    { Header("seed", "soil"), Header("seed", "location"), Header("seed", "seed"),
      Header("soil", "location"), Header("soil", "seed"), Header("location", "seed") }
        \cup BadHeaders

\* "1 0 2" maps 0 to 1 and 1 to 2; "U64Max 0 2" maps 0 to U64Max and overflows at 1
WalkLines == { << <<1>>, <<0>>, <<2>> >>, << <<U64Max>>, <<0>>, <<2>> >>, << <<1>>, <<0>> >> }

ReadChainHeader == ReadHeader(WalkHeaders)
ReadChainLine == ReadMappingLine(WalkLines, WalkMappings)

CallLookupSeedLocation ==
    /\ pc = "loaded"
    /\ \E s \in U64 :
         /\ seed' = s
         /\ value' = s
    /\ key' = "seed"
    /\ hops' = 0
    /\ applied' = <<>>
    /\ location' = None
    /\ pc' = "walking"
    /\ UNCHANGED <<overflow_checks, ingestVars, lookupVars, findVars, input, cardVars,
                   raceVars>>

Iterate ==
    /\ pc = "walking"
    /\ hops < MaxHops
    /\ LET body == LoopBody(maps, key, value)
       IN  /\ key' = body.key
           /\ value' = body.value
           /\ location' = body.outcome
           /\ hops' = IF key \in DOMAIN maps /\ body.outcome.tag # "Panic"
                      THEN hops + 1 ELSE hops
           /\ applied' = IF key \in DOMAIN maps /\ body.outcome.tag # "Panic"
                         THEN Append(applied, key) ELSE applied
           /\ pc' = IF ~body.done THEN "walking"
                    ELSE IF body.outcome.tag = "Panic" THEN "panicked"
                    ELSE "returned"
    /\ UNCHANGED <<overflow_checks, seed, ingestVars, lookupVars, findVars, input,
                   cardVars, raceVars>>

Next ==
    \/ ReadChainHeader
    \/ ReadChainLine
    \/ ReadBlankLine
    \/ EndOfInputInBlock
    \/ EndOfInput
    \/ CallLookupSeedLocation
    \/ Iterate

Spec == Init /\ [][Next]_vars

(***************************************************************************)
(* SpecFind: a chain of blocks is read, then                               *)
(* find_seed_with_smallest_location is called on a list of seeds and runs  *)
(* one seed per step.                                                      *)
(*   pc = "finding"  : it is in its loop over seeds[1..]                   *)
(*   pc = "returned" : it has returned found                               *)
(*   pc = "hung"     : a call of lookup_seed_location never returns        *)
(***************************************************************************)
MaxSeeds == 2

SeedLists == UNION {[1..n -> U64] : n \in 0..MaxSeeds}

FindHeaders ==
    { Header("seed", "soil"), Header("seed", "location"), Header("seed", "seed"),
      Header("soil", "location") }

ReadFindHeader == ReadHeader(FindHeaders)

CallFind ==
    /\ pc = "loaded"
    /\ \E sds \in SeedLists :
         LET entry == FindEntry(maps, sds, smallest)
         IN  /\ seeds' = sds
             /\ calls' = IF sds = <<>> THEN 0 ELSE 1
             /\ idx' = 2
             /\ pc' = entry.pc
             /\ smallest' = entry.smallest
             /\ found' = entry.found
    /\ UNCHANGED <<overflow_checks, ingestVars, lookupVars, walkVars, input, cardVars,
                   raceVars>>

FindNext ==
    /\ pc = "finding"
    /\ idx <= Len(seeds)
    /\ LET body == FindBody(maps, seeds[idx], smallest)
       IN  /\ pc' = body.pc
           /\ smallest' = body.smallest
           /\ found' = body.found
    /\ calls' = calls + 1
    /\ idx' = idx + 1
    /\ UNCHANGED <<overflow_checks, seeds, ingestVars, lookupVars, walkVars, input,
                   cardVars, raceVars>>

FindReturn ==
    /\ pc = "finding"
    /\ idx > Len(seeds)
    /\ found' = Ok(smallest[1])
    /\ pc' = "returned"
    /\ UNCHANGED <<overflow_checks, seeds, idx, smallest, calls, ingestVars, lookupVars,
                   walkVars, input, cardVars, raceVars>>

NextFind ==
    \/ ReadFindHeader
    \/ ReadChainLine
    \/ ReadBlankLine
    \/ EndOfInputInBlock
    \/ EndOfInput
    \/ CallFind
    \/ FindNext
    \/ FindReturn

SpecFind == Init /\ [][NextFind]_vars

(***************************************************************************)
(* SpecIngest: read_all_maps, one call of read_map per step.  A block of   *)
(* text is its header line, its mapping lines and what ends it: a blank    *)
(* line or the end of the input.                                           *)
(***************************************************************************)
MaxBlocks == 3
IngestMappings == 2

\* read_map's loop over the mapping lines of a block
RECURSIVE ReadLines(_, _, _)
ReadLines(lines, i, mappings) ==
    IF i > Len(lines) THEN Ok(mappings)
    ELSE LET mapping == from_str(lines[i])
         IN  IF mapping.tag # "Ok" THEN mapping
             ELSE ReadLines(lines, i + 1, Append(mappings, mapping.val))

\* read_map on a block of text: Ok(Some(map)), an Err or a panic
read_map(text) ==
    LET header == parse_map_header(text.header)
    IN  IF header.tag = "Err" THEN header
        ELSE LET mappings == ReadLines(text.lines, 1, <<>>)
             IN  IF mappings.tag # "Ok" THEN mappings
                 ELSE Ok([source |-> header.val[1], destination |-> header.val[2],
                          mappings |-> mappings.val])

IngestHeaders ==
    { Header("seed", "soil"), Header("seed", "location"), Header("soil", "location") }
        \cup BadHeaders

\* "1 0 2" and "0 1 1" are within u64; the interval of "0 1 U64Max" ends beyond it
IngestLines ==
    { << <<1>>, <<0>>, <<2>> >>, << <<0>>, <<1>>, <<1>> >>, << <<0>>, <<1>>, <<U64Max>> >>,
      << <<1>>, <<0>> >> }

Texts ==
    [ header : IngestHeaders,
      lines : UNION {[1..n -> IngestLines] : n \in 0..IngestMappings},
      end : {"blank line", "end of input"} ]

\* one iteration of read_all_maps's loop; after a block that the end of the
\* input ends, the next call of read_map returns None and the loop is left
ReadMap ==
    /\ pc = "read_map"
    /\ Len(input) < MaxBlocks
    /\ \E text \in Texts :
         LET map == read_map(text)
         IN  /\ input' = Append(input, text)
             /\ CASE map.tag = "Err" -> pc' = "failed" /\ maps' = maps
                  [] map.tag = "Panic" -> pc' = "panicked" /\ maps' = maps
                  [] OTHER -> /\ maps' = Insert(maps, map.val.source, map.val)
                              /\ pc' = IF text.end = "blank line" THEN "read_map"
                                       ELSE "loaded"
    /\ UNCHANGED <<overflow_checks, block, length_field, lookupVars, walkVars, findVars,
                   cardVars, raceVars>>

NextIngest ==
    \/ ReadMap
    \/ EndOfInput

SpecIngest == Init /\ [][NextIngest]_vars

(***************************************************************************)
(* 2023/day04-part2 and 2023/day06 compute in u32, scaled down to          *)
(* 0..U32Max; usize is not bounded.                                        *)
(***************************************************************************)
U32Max == 15
U32 == 0..U32Max

AddU32(a, b) ==
    IF a + b <= U32Max THEN Ok(a + b)
    ELSE IF overflow_checks THEN Panicked
    ELSE Ok((a + b) % (U32Max + 1))

SubU32(a, b) ==
    IF a >= b THEN Ok(a - b)
    ELSE IF overflow_checks THEN [tag |-> "Panic", val |-> "attempt to subtract with overflow"]
    ELSE Ok((a - b) % (U32Max + 1))

MulU32(a, b) ==
    IF a * b <= U32Max THEN Ok(a * b)
    ELSE IF overflow_checks THEN [tag |-> "Panic", val |-> "attempt to multiply with overflow"]
    ELSE Ok((a * b) % (U32Max + 1))

\* str::parse::<u32>
RECURSIVE ParseDigitsU32(_, _, _)
ParseDigitsU32(tok, i, acc) ==
    IF i > Len(tok) THEN Ok(acc)
    ELSE IF tok[i] = NonDigit THEN Err("invalid digit found in string")
    ELSE IF acc * 10 + tok[i] > U32Max THEN Err("number too large to fit in target type")
    ELSE ParseDigitsU32(tok, i + 1, acc * 10 + tok[i])

ParseU32(tok) ==
    IF Len(tok) = 0 THEN Err("cannot parse integer from empty string")
    ELSE ParseDigitsU32(tok, 1, 0)

(***************************************************************************)
(* 2023/day04-part2/src/main.rs.  A card line is whether it has at least   *)
(* the ten bytes of the "Card   #: " prefix, whether it has a '|' after    *)
(* them, and the tokens that split_ascii_whitespace yields before and      *)
(* after the '|'.                                                          *)
(***************************************************************************)
RECURSIVE parse_number_list(_, _, _)
parse_number_list(numbers, i, vec) ==
    IF i > Len(numbers) THEN Ok(vec)
    ELSE LET number == ParseU32(numbers[i])
         IN  IF number.tag = "Err" THEN Err("invalid number")
             ELSE parse_number_list(numbers, i + 1, Append(vec, number.val))

Range(seq) == {seq[i] : i \in 1..Len(seq)}

process_card(line) ==
    IF ~line.prefix THEN Err("missing the 'Card   #: ' prefix")
    ELSE IF ~line.bar THEN Err("missing a '|'")
    ELSE LET winning == parse_number_list(line.winning, 1, <<>>)
             have == parse_number_list(line.have, 1, <<>>)
         IN  IF winning.tag = "Err" THEN Err("winning numbers error")
             ELSE IF have.tag = "Err" THEN Err("numbers you have error")
             ELSE Ok(Cardinality({n \in 1..Len(have.val) : have.val[n] \in Range(winning.val)}))

\* card_counts[i] of the code is counts[i + 1] here
Push(counts, i) == IF i >= Len(counts) THEN Append(counts, 1) ELSE counts

\* the loop `for j in 0..matches` of process_all_cards, from j on
RECURSIVE WinCopies(_, _, _, _)
WinCopies(counts, i, j, matches) ==
    IF j >= matches THEN Ok(counts)
    ELSE LET pushed == Push(counts, i + j + 1)
             sum == AddU32(pushed[i + j + 2], pushed[i + 1])
         IN  IF sum.tag = "Panic" THEN Panicked
             ELSE WinCopies([pushed EXCEPT ![i + j + 2] = sum.val], i, j + 1, matches)

\* card_counts.iter().sum()
RECURSIVE IterSum(_, _, _)
IterSum(counts, i, acc) ==
    IF i > Len(counts) THEN Ok(acc)
    ELSE LET sum == AddU32(acc, counts[i])
         IN  IF sum.tag = "Panic" THEN Panicked
             ELSE IterSum(counts, i + 1, sum.val)

MaxCards == 4
MaxHave == 3

CardTokens == { <<1>>, <<2>>, <<NonDigit>> }
CardLines ==
    [ prefix : BOOLEAN,
      bar : BOOLEAN,
      winning : UNION {[1..n -> CardTokens] : n \in 0..2},
      have : UNION {[1..n -> CardTokens] : n \in 0..MaxHave} ]

(***************************************************************************)
(* process_all_cards, one card per step.                                   *)
(*   card_pc = "cards"    : it is in its loop over the lines               *)
(*   card_pc = "returned" : it has returned Ok(total_cards)                *)
(*   card_pc = "failed"   : it has returned an Err                         *)
(*   card_pc = "panicked" : the program has panicked                       *)
(***************************************************************************)
CallProcessAllCards ==
    /\ card_pc = "start"
    /\ card_counts' = <<1>>
    /\ card_pc' = "cards"
    /\ UNCHANGED <<overflow_checks, pc, matched, total_cards, ingestVars, input, lookupVars,
                   walkVars, findVars, raceVars>>

NextCard ==
    /\ card_pc = "cards"
    /\ Len(matched) < MaxCards
    /\ \E line \in CardLines :
         LET i == Len(matched)
             pushed == Push(card_counts, i)
             matches == process_card(line)
             won == WinCopies(pushed, i, 0, matches.val)
         IN  IF i > Len(card_counts)
             THEN card_pc' = "panicked" /\ UNCHANGED <<card_counts, matched, total_cards>>
             ELSE IF matches.tag = "Err"
             THEN /\ card_pc' = "failed"
                  /\ card_counts' = pushed
                  /\ total_cards' = matches
                  /\ matched' = matched
             ELSE IF won.tag = "Panic"
             THEN /\ card_pc' = "panicked"
                  /\ card_counts' = pushed
                  /\ UNCHANGED <<matched, total_cards>>
             ELSE /\ card_pc' = card_pc
                  /\ card_counts' = won.val
                  /\ matched' = Append(matched, matches.val)
                  /\ total_cards' = total_cards
    /\ UNCHANGED <<overflow_checks, pc, ingestVars, input, lookupVars, walkVars, findVars,
                   raceVars>>

EndOfCards ==
    /\ card_pc = "cards"
    /\ LET total == IterSum(card_counts, 1, 0)
       IN  IF total.tag = "Panic"
           THEN card_pc' = "panicked" /\ total_cards' = total_cards
           ELSE card_pc' = "returned" /\ total_cards' = total
    /\ UNCHANGED <<overflow_checks, pc, card_counts, matched, ingestVars, input, lookupVars,
                   walkVars, findVars, raceVars>>

NextCards ==
    \/ CallProcessAllCards
    \/ NextCard
    \/ EndOfCards

SpecCards == Init /\ [][NextCards]_vars

(***************************************************************************)
(* 2023/day06/src/main.rs; 2023/day06-part2/src/main.rs has the same       *)
(* functions on u64.                                                       *)
(***************************************************************************)
AssertFailed == [tag |-> "Panic", val |-> "assertion failed: button_hold_time <= self.time"]

\* Race::calculate_distance
calculate_distance(r, button_hold_time) ==
    IF ~(button_hold_time <= r.time) THEN AssertFailed
    ELSE MulU32(r.time - button_hold_time, button_hold_time)

\* find_first_winning_race_iter on an iterator that yields button_hold_time
\* first, then left - 1 more values, each the one before plus step
RECURSIVE find_first_winning_race_iter(_, _, _, _)
find_first_winning_race_iter(r, button_hold_time, left, step) ==
    IF left = 0 THEN Err("There's no way to win this race.")
    ELSE LET distance == calculate_distance(r, button_hold_time)
         IN  IF distance.tag = "Panic" THEN distance
             ELSE IF distance.val > r.record_distance THEN Ok(button_hold_time)
             ELSE find_first_winning_race_iter(r, button_hold_time + step, left - 1, step)

\* the number of values of the range start..end
RangeLen(start, end) == IF end > start THEN end - start ELSE 0

\* (1..race.time - 1)
find_minimum_winning_race(r) ==
    LET end == SubU32(r.time, 1)
    IN  IF end.tag = "Panic" THEN end
        ELSE find_first_winning_race_iter(r, 1, RangeLen(1, end.val), 1)

\* (1..race.time - 1).rev()
find_maximum_winning_race(r) ==
    LET end == SubU32(r.time, 1)
    IN  IF end.tag = "Panic" THEN end
        ELSE find_first_winning_race_iter(r, end.val - 1, RangeLen(1, end.val), -1)

find_number_of_winning_hold_times(r) ==
    LET min_win_hold_time == find_minimum_winning_race(r)
        max_win_hold_time == find_maximum_winning_race(r)
    IN  IF min_win_hold_time.tag # "Ok" THEN min_win_hold_time
        ELSE IF max_win_hold_time.tag # "Ok" THEN max_win_hold_time
        ELSE LET range == SubU32(max_win_hold_time.val, min_win_hold_time.val)
             IN  IF range.tag = "Panic" THEN range ELSE AddU32(range.val, 1)

MaxTime == 8
MaxRecord == 8

(***************************************************************************)
(* One race.                                                               *)
(*   race_pc = "race"     : the Race is made                               *)
(*   race_pc = "returned" : find_number_of_winning_hold_times returned Ok  *)
(*   race_pc = "failed"   : it has returned an Err                         *)
(*   race_pc = "panicked" : the program has panicked                       *)
(***************************************************************************)
NewRace ==
    /\ race_pc = "start"
    /\ \E time \in 0..MaxTime, distance \in 0..MaxRecord :
         race' = [time |-> time, record_distance |-> distance]
    /\ race_pc' = "race"
    /\ UNCHANGED <<overflow_checks, pc, win_range, ingestVars, input, lookupVars, walkVars,
                   findVars, cardVars>>

FindNumberOfWinningHoldTimes ==
    /\ race_pc = "race"
    /\ win_range' = find_number_of_winning_hold_times(race)
    /\ race_pc' = CASE win_range'.tag = "Ok" -> "returned"
                    [] win_range'.tag = "Err" -> "failed"
                    [] OTHER -> "panicked"
    /\ UNCHANGED <<overflow_checks, pc, race, ingestVars, input, lookupVars, walkVars,
                   findVars, cardVars>>

NextRace ==
    \/ NewRace
    \/ FindNumberOfWinningHoldTimes

SpecRace == Init /\ [][NextRace]_vars

(***************************************************************************)
(* Properties of Map::lookup and Mapping::from_str, under SpecLookup.      *)
(* They are stated on the looked-up map, Looked, and on the outcomes in    *)
(* result, with the interval and the sum written out from the fields: the  *)
(* source interval of an entry is the range source.start..source.end it    *)
(* holds.                                                                  *)
(***************************************************************************)
Called == pc = "loaded" /\ arg # NoCall
Looked == maps[arg].mappings

InInterval(m, v) == m.source.start <= v /\ v < m.source.end
Holders(ms, v) == {i \in 1..Len(ms) : InInterval(ms[i], v)}
First(S) == CHOOSE i \in S : \A j \in S : i <= j
Sum(m, v) == m.destination_start + (v - m.source.start)

\* the u64 sum destination_start + (v - source.start) as the build evaluates it
SumU64(m, v) ==
    IF Sum(m, v) <= U64Max THEN Ok(Sum(m, v))
    ELSE IF overflow_checks THEN Panicked
    ELSE Ok(Sum(m, v) - (U64Max + 1))

\* C3, as stated: for every entry m of the table and every v in m's source
\* interval, lookup(v) is the u64 sum m.destination_start + (v - m.source_start).
C3_EveryEntryMaps ==
    Called => \A v \in U64 : \A i \in Holders(Looked, v) :
                 result[v] = SumU64(Looked[i], v)

\* C3, amended: for every v that some entry contains, lookup(v) is the u64 sum
\* m.destination_start + (v - m.source_start) of the first-declared entry m
\* that contains v.
C3_FirstEntryMaps ==
    Called => \A v \in U64 :
                 Holders(Looked, v) # {} =>
                    result[v] = SumU64(Looked[First(Holders(Looked, v))], v)

C3_Witness ==
    /\ Called
    /\ \E v \in U64 :
         /\ Holders(Looked, v) # {}
         /\ result[v] = Ok(Sum(Looked[First(Holders(Looked, v))], v))
         /\ result[v] # Ok(v)
         /\ result[v] # Ok(Looked[First(Holders(Looked, v))].destination_start)

\* C4: a value that lies in none of the table's source intervals is returned
\* unchanged, as a value and not as a failure.
C4_Passthrough ==
    Called => \A v \in U64 : Holders(Looked, v) = {} => result[v] = Ok(v)

C4_Witness ==
    /\ Called
    /\ Len(Looked) = MaxMappings
    /\ \E v \in U64 : v # 0 /\ Holders(Looked, v) = {} /\ result[v] = Ok(v)
    /\ \E v \in U64 : Holders(Looked, v) # {} /\ result[v] # Ok(v)

\* C5: when two or more entries of the table contain v, lookup(v) is the
\* mapping of the one declared first, whatever the later ones map v to.
C5_FirstDeclaredWins ==
    Called => \A v \in U64 :
                 Cardinality(Holders(Looked, v)) >= 2 =>
                    result[v] = SumU64(Looked[First(Holders(Looked, v))], v)

C5_Witness ==
    /\ Called
    /\ \E v \in U64 :
         /\ Cardinality(Holders(Looked, v)) >= 2
         /\ \E j \in Holders(Looked, v) :
              SumU64(Looked[j], v) # SumU64(Looked[First(Holders(Looked, v))], v)
         /\ result[v] = Ok(Sum(Looked[First(Holders(Looked, v))], v))

\* C8: lookup returns a u64 for every table ingestion builds and every v;
\* destination_start + (v - source_start) never exceeds the u64 range.
C8_LookupTotal ==
    Called => \A v \in U64 :
                 /\ result[v].tag = "Ok"
                 /\ \A i \in Holders(Looked, v) :
                       i = First(Holders(Looked, v)) => Sum(Looked[i], v) <= U64Max

\* C9: a mapping line whose length field is zero is rejected with an error and
\* builds no Range Mapping, so every Range Mapping held has a non-empty source
\* interval.
C9_ZeroLengthRejected ==
    /\ length_field = Ok(0) => pc = "failed"
    /\ \A i \in 1..Len(block.mappings) :
          block.mappings[i].source.start < block.mappings[i].source.end
    /\ \A k \in DOMAIN maps : \A i \in 1..Len(maps[k].mappings) :
          maps[k].mappings[i].source.start < maps[k].mappings[i].source.end

(***************************************************************************)
(* Properties of lookup_seed_location, under Spec.  The chain is followed  *)
(* here on the tables' categories alone, and a table is applied by the     *)
(* interval and the sum written out from its fields.                       *)
(***************************************************************************)
\* the source categories of the tables met by following destination
\* categories from cat, up to the table that leads to "location" or up to
\* n tables
RECURSIVE Follow(_, _, _)
Follow(ms, cat, n) ==
    IF n = 0 \/ cat \notin DOMAIN ms THEN <<>>
    ELSE IF ms[cat].destination = "location" THEN <<cat>>
    ELSE <<cat>> \o Follow(ms, ms[cat].destination, n - 1)

Tables(ms) == Cardinality(DOMAIN ms)
Path(ms) == Follow(ms, "seed", Tables(ms))
\* where following ends: "location", a category without a table, or a
\* category met before
PathEnd(ms) == IF Path(ms) = <<>> THEN "seed" ELSE ms[Path(ms)[Len(Path(ms))]].destination
ReachesLocation(ms) == PathEnd(ms) = "location"
DeadEnds(ms) == PathEnd(ms) # "location" /\ PathEnd(ms) \notin DOMAIN ms
Cycles(ms) == PathEnd(ms) \in DOMAIN ms

TableValue(ms, cat, v) ==
    IF Holders(ms[cat].mappings, v) = {} THEN Ok(v)
    ELSE SumU64(ms[cat].mappings[First(Holders(ms[cat].mappings, v))], v)

\* the tables of path from the i-th on, applied in order to v
RECURSIVE Applied(_, _, _, _)
Applied(ms, path, i, v) ==
    IF i > Len(path) THEN Ok(v)
    ELSE LET next == TableValue(ms, path[i], v)
         IN  IF next.tag = "Panic" THEN Panicked
             ELSE Applied(ms, path, i + 1, next.val)

WalkEnded == pc \in {"returned", "panicked"} /\ location # None
Walking == pc = "walking"

\* C2: on a chain that leads from "seed" to "location", lookup_seed_location(v)
\* returns Ok of the value obtained by applying the tables in chain order,
\* starting at the table of "seed", and stops right after the table whose
\* destination is "location" (a lookup that panics, C8, yields no value: the
\* call panics with it).
C2_ResolvesAlongChain ==
    ReachesLocation(maps) =>
        /\ Walking => hops < Len(Path(maps))
        /\ WalkEnded =>
             /\ location = Applied(maps, Path(maps), 1, seed)
             /\ location.tag = "Ok" => hops = Len(Path(maps)) /\ key = "location"

C2_Witness ==
    /\ WalkEnded
    /\ ReachesLocation(maps)
    /\ hops = 2
    /\ location.tag = "Ok"
    /\ TableValue(maps, "seed", seed) # Ok(seed)
    /\ location # TableValue(maps, "seed", seed)

\* C6: lookup_seed_location ends on every chain: when the categories cycle
\* without reaching "location", it fails with ChainTooLong after at most
\* (number of tables + 1) hops.
C6_HopsBounded ==
    (Walking \/ WalkEnded) => hops <= Tables(maps) + 1

\* C7: when following the destination categories from "seed" ends at a
\* category other than "location" that has no table, lookup_seed_location
\* returns the error that names that category, and no value, for every input
\* value (a lookup that panics on the way, C8, ends the call before it gets
\* to that category).
C7_UnknownCategory ==
    DeadEnds(maps) =>
        /\ Walking => hops < Len(Path(maps)) + 1
        /\ WalkEnded =>
             location = IF Applied(maps, Path(maps), 1, seed).tag = "Panic"
                        THEN Panicked
                        ELSE Err(NoMap(PathEnd(maps)))

C7_Witness ==
    /\ WalkEnded
    /\ DeadEnds(maps)
    /\ hops >= 1
    /\ location = Err(NoMap("soil"))
    /\ TableValue(maps, "seed", seed) # Ok(seed)

C7_WitnessNoSeedTable ==
    /\ WalkEnded
    /\ maps # EmptyMaps
    /\ location = Err(NoMap("seed"))

ReturnedOk == pc = "returned" /\ location.tag = "Ok"
Steps == 1..Len(applied)

\* C15: whenever lookup_seed_location returns Ok on a chain of N tables, the
\* walk has applied at least one table and at most N, no table twice, the
\* first the table of "seed" and each next one the table of the destination
\* category of the one before, and never a table whose source category is
\* "location".
C15_WalkFollowsChainOnce ==
    ReturnedOk =>
        /\ 1 <= Len(applied) /\ Len(applied) <= Tables(maps)
        /\ \A i, j \in Steps : applied[i] = applied[j] => i = j
        /\ applied[1] = "seed"
        /\ \A i \in Steps : i > 1 => applied[i] = maps[applied[i - 1]].destination
        /\ \A i \in Steps : maps[applied[i]].source # "location"

\* a walk over two tables that returns Ok past a table of "location"
C15_Witness ==
    /\ ReturnedOk
    /\ Len(applied) = 2
    /\ "location" \in DOMAIN maps
    /\ Tables(maps) = 3

(***************************************************************************)
(* Properties of find_seed_with_smallest_location, under SpecFind.         *)
(***************************************************************************)
FindCalled == pc \in {"finding", "hung"} \/ found # None
Candidates == 1..Len(seeds)
LocationOf(i) == Applied(maps, Path(maps), 1, seeds[i])
EveryCandidateResolves ==
    ReachesLocation(maps) /\ \A i \in Candidates : LocationOf(i).tag = "Ok"
\* the first position among those of the smallest location
Best ==
    CHOOSE i \in Candidates :
        \A j \in Candidates :
            \/ LocationOf(i).val < LocationOf(j).val
            \/ LocationOf(i).val = LocationOf(j).val /\ i <= j

\* C1: on a non-empty list of seeds and a chain on which every one of them
\* resolves, find_seed_with_smallest_location returns a seed of the list whose
\* location is smallest, and the first such seed of the list when several
\* share it.
C1_FirstSmallest ==
    (FindCalled /\ seeds # <<>> /\ EveryCandidateResolves) =>
        /\ pc \in {"finding", "returned"}
        /\ pc = "returned" => found = Ok(seeds[Best])

C1_Witness ==
    /\ pc = "returned"
    /\ EveryCandidateResolves
    /\ \E i, j \in Candidates :
         /\ i < j
         /\ seeds[i] # seeds[j]
         /\ LocationOf(i) = LocationOf(j)
         /\ LocationOf(i).val # seeds[i]
         /\ found = Ok(seeds[i])

C1_WitnessLaterSeed ==
    /\ pc = "returned"
    /\ EveryCandidateResolves
    /\ Len(seeds) >= 2
    /\ Best > 1
    /\ found = Ok(seeds[Best])
    /\ found # Ok(seeds[1])

\* C10: on an empty list of seeds find_seed_with_smallest_location returns
\* the error "No seeds" and resolves no value through the chain, whatever
\* the chain is.
C10_NoCandidates ==
    (FindCalled /\ seeds = <<>>) =>
        /\ pc = "returned"
        /\ found = Err("No seeds")
        /\ calls = 0

C10_Witness ==
    /\ FindCalled
    /\ seeds = <<>>
    /\ found = Err("No seeds")
    /\ Cycles(maps)

(***************************************************************************)
(* Properties of read_all_maps, under SpecIngest.  The table a block of    *)
(* text declares is written out here from the text: the categories of its  *)
(* header and the decimal numbers of its lines.                            *)
(***************************************************************************)
RECURSIVE Decimal(_)
Decimal(tok) ==
    IF Len(tok) = 0 THEN 0
    ELSE 10 * Decimal(SubSeq(tok, 1, Len(tok) - 1)) + tok[Len(tok)]

IsNumber(tok) ==
    /\ Len(tok) > 0
    /\ \A i \in 1..Len(tok) : tok[i] \in 0..9
    /\ Decimal(tok) <= U64Max

WellFormedHeader(header) ==
    header.ends_with_map /\ Len(header.parts) = 3 /\ header.parts[2] = "to"
WellFormedLine(line) == Len(line) = 3 /\ \A i \in 1..3 : IsNumber(line[i])
WellFormed(text) ==
    /\ WellFormedHeader(text.header)
    /\ \A j \in 1..Len(text.lines) : WellFormedLine(text.lines[j])

SourceOf(text) == text.header.parts[1]
EntryOf(line) ==
    [ source |-> [start |-> Decimal(line[2]), end |-> Decimal(line[2]) + Decimal(line[3])],
      destination_start |-> Decimal(line[1]) ]
TableOf(text) ==
    [ source |-> SourceOf(text),
      destination |-> text.header.parts[3],
      mappings |-> [j \in 1..Len(text.lines) |-> EntryOf(text.lines[j])] ]

Blocks == 1..Len(input)
IngestEnded == pc \in {"loaded", "failed", "panicked"}

\* C11: read_all_maps, given well-formed blocks, returns a chain with one
\* table per block under the block's source category: the table has the
\* header's destination and, in input order, one entry per line "dest src
\* len" with the source interval [src, src+len) and the destination start
\* dest.
C11_OneTablePerBlock ==
    (IngestEnded /\ \A b \in Blocks : WellFormed(input[b]))
        => /\ pc = "loaded"
           /\ DOMAIN maps = {SourceOf(input[b]) : b \in Blocks}
           /\ \A b \in Blocks : maps[SourceOf(input[b])] = TableOf(input[b])

\* C14: after read_all_maps has succeeded there are as many tables as
\* blocks were parsed, and every parsed block is the table under its source
\* category, also when two blocks declare the same source category.
C14_NoBlockDropped ==
    pc = "loaded"
        => /\ Cardinality(DOMAIN maps) = Len(input)
           /\ \A b \in Blocks :
                LET map == read_map(input[b]).val
                IN  map.source \in DOMAIN maps /\ maps[map.source] = map

(***************************************************************************)
(* Properties of process_all_cards, under SpecCards.  Cards are numbered   *)
(* from 1 here; matched[k] is the number of matches of card k.             *)
(***************************************************************************)
RECURSIVE Copies(_)
RECURSIVE WonFrom(_, _)
\* the copies of card c won from the cards 1..k
WonFrom(c, k) ==
    IF k = 0 THEN 0
    ELSE WonFrom(c, k - 1) + (IF k < c /\ c <= k + matched[k] THEN Copies(k) ELSE 0)
\* the copies of card c: the original and the copies won from the cards before it
Copies(c) == 1 + WonFrom(c, c - 1)

RECURSIVE Held(_)
Held(n) == IF n = 0 THEN 0 ELSE Held(n - 1) + Copies(n)

\* C12: process_all_cards returns the number of scratchcards held over the
\* cards of the input, whatever the input: every card of the input starts
\* with one copy, each copy of a card wins one copy of each of the next
\* matches cards, and only the cards of the input are summed.
C12_TotalOverInputCards ==
    card_pc = "returned" => total_cards = Ok(Held(Len(matched)))

(***************************************************************************)
(* Properties of find_number_of_winning_hold_times, under SpecRace.        *)
(***************************************************************************)
RaceEnded == race_pc \in {"returned", "failed", "panicked"}

\* the button hold times that win the race, the distance in unbounded integers
Winners == {h \in 0..race.time : (race.time - h) * h > race.record_distance}

\* C13: for every race that can be won, find_number_of_winning_hold_times
\* returns the number of hold times h in 0..time with (time - h) * h >
\* record_distance; no winning hold time is missed.
C13_CountsEveryWinner ==
    (RaceEnded /\ Winners # {}) => win_range = Ok(Cardinality(Winners))

====
